---- MODULE Spec2Model ----
(***************************************************************************)
(* Hyperplane swap-curve mathematics: the stable-swap solver               *)
(* (curve/stable.rs), the value-preservation helpers (curve/calculator.rs) *)
(* and the Token-2022 transfer-fee adapter (utils/token_2022.rs).          *)
(*                                                                         *)
(* The curve layer is pure: every operation maps input values to a value   *)
(* or an error.  Each operation is an action that applies the function to  *)
(* inputs chosen in Init and records the result in `out`.  The liquidity   *)
(* instructions (instructions/withdraw_all_token_types.rs) act on the      *)
(* accounts of a pool, kept in `pool`.                                     *)
(*                                                                         *)
(* Results are records [ok, val, err]: Ok(v) models Ok(v), Err(e) models   *)
(* Err(e) of anchor_lang::Result.                                          *)
(*                                                                         *)
(* Amounts in the model are far below 2^64, so the overflow branch of the  *)
(* checked U256/u128 operations and the narrowing conversions never fire;  *)
(* the failures that remain are division by zero, subtraction underflow    *)
(* and the explicit require_msg! checks.                                   *)
(***************************************************************************)
EXTENDS Integers, Sequences, FiniteSets, TLC

VARIABLES
    pc,     \* "swap", "split" or "fee" before the operation is applied, "done" after it
    op,     \* the operation applied ("none" before)
    curve,  \* StableCurve { amp, token_a_factor, token_b_factor }
    inp,    \* the inputs of the operation
    out,    \* the Result the operation returned
    pool    \* the accounts of a swap pool: vaults, pool-token mint and holders

vars == <<pc, op, curve, inp, out, pool>>

(***************************************************************************)
(* Bounds of the model                                                     *)
(***************************************************************************)
MaxAmp == 3          \* amp ranges over MIN_AMP..MaxAmp
MaxReserve == 7      \* pool reserves range over 0..MaxReserve
MaxSource == 3       \* swap source amounts range over 0..MaxSource
MaxSupply == 6       \* pool-token supply and pool-token amounts
MaxAmount == 24      \* amounts passed through the transfer-fee adapter
FeeCapNone == 100000 \* a maximum_fee no fee of the model reaches (u64::MAX in the tests)
MaxFeeDenominator == 3 \* denominators of the owner and host fee fractions
MaxPoolAmount == 28  \* reserves (in 6-decimals units) of the decimals comparison
MaxSolverAmount == 33 \* reserves handed to the solvers when they run pass by pass
MaxVault == 5        \* vault balances of a pool, capped in the guards
MaxMint == 4         \* pool-token supply of a pool, capped in the guards
MaxTripAmount == 11  \* reserves and source amounts of a swap there and back

(***************************************************************************)
(* Program constants                                                       *)
(***************************************************************************)
N_COINS == 2
ITERATIONS == 256
MIN_AMP == 1
MAX_AMP == 1000000
ONE_IN_BASIS_POINTS == 10000

Ok(v) == [ok |-> TRUE, val |-> v, err |-> "none"]
Err(e) == [ok |-> FALSE, val |-> 0, err |-> e]

\* The pool accounts of the specifications that use the curve alone
NoPool == <<>>

AtoB == "AtoB"
BtoA == "BtoA"
TradeDirection == {AtoB, BtoA}

\* Mutant: the direction is returned as it is.
opposite_same(trade_direction) == trade_direction

\* TradeDirection::opposite
opposite(trade_direction) ==
    IF trade_direction = AtoB THEN BtoA ELSE AtoB

Floor == "Floor"
Ceiling == "Ceiling"
RoundDirection == {Floor, Ceiling}

abs_diff(a, b) == IF a >= b THEN a - b ELSE b - a

(***************************************************************************)
(* Checked arithmetic (utils::math::TryMath on u64, u128, U256)            *)
(***************************************************************************)
try_sub(a, b) == IF a >= b THEN Ok(a - b) ELSE Err("CalculationFailure")

try_div(a, b) == IF b = 0 THEN Err("CalculationFailure") ELSE Ok(a \div b)

\* spl_math CheckedCeilDiv for U256: None for a zero divisor and for a zero
\* floor quotient, otherwise the quotient rounded up.  compute_y discards the
\* second component of the pair.  run_swap_scenarios pins the zero-quotient
\* case (pool_destination_amount = 1 releases 0).
checked_ceil_div(numerator, denominator) ==
    IF denominator = 0 THEN [some |-> FALSE, val |-> 0]
    ELSE IF numerator \div denominator = 0 THEN [some |-> FALSE, val |-> 0]
    ELSE IF numerator % denominator > 0
         THEN [some |-> TRUE, val |-> (numerator \div denominator) + 1]
         ELSE [some |-> TRUE, val |-> numerator \div denominator]

(***************************************************************************)
(* curve/stable.rs                                                         *)
(***************************************************************************)
compute_ann(amp) == amp * N_COINS

try_u8_power(a, b) == a ^ b

try_u8_mul(a, b) == a * b

\* D = (AnnS + D_P * n) * D / ((Ann - 1) * D + (n + 1) * D_P)
compute_next_d(ann, d_init, d_product, sum_x) ==
    LET anns == ann * sum_x
        numerator == (anns + try_u8_mul(d_product, N_COINS)) * d_init
        annm1 == try_sub(ann, 1)
        denominator == d_init * annm1.val + try_u8_mul(d_product, N_COINS + 1)
    IN  IF ~annm1.ok THEN annm1 ELSE try_div(numerator, denominator)

\* One pass of the loop of compute_d: the next approximation of D
compute_d_iteration(ann, amount_a, amount_b, d) ==
    LET amount_a_times_coins == try_u8_mul(amount_a, N_COINS)
        amount_b_times_coins == try_u8_mul(amount_b, N_COINS)
        dp1 == try_div(d * d, amount_a_times_coins)
        dp2 == try_div(dp1.val * d, amount_b_times_coins)
        next == compute_next_d(ann, d, dp2.val, amount_a + amount_b)
    IN  IF ~dp1.ok THEN dp1
        ELSE IF ~dp2.ok THEN dp2
        ELSE next

RECURSIVE compute_d_loop(_, _, _, _, _)
compute_d_loop(ann, amount_a, amount_b, d, i) ==
    IF i = ITERATIONS THEN Ok(d)
    ELSE
        LET next == compute_d_iteration(ann, amount_a, amount_b, d)
        IN  IF ~next.ok THEN next
            ELSE IF abs_diff(next.val, d) <= 1 THEN Ok(next.val)
            ELSE compute_d_loop(ann, amount_a, amount_b, next.val, i + 1)

\* Mutant: D is 0 as soon as one of the two reserves is 0.
compute_d_either_zero(ann, amount_a, amount_b) ==
    LET sum_x == amount_a + amount_b
    IN  IF amount_a = 0 \/ amount_b = 0 THEN Ok(0)
        ELSE compute_d_loop(ann, amount_a, amount_b, sum_x, 0)

compute_d(ann, amount_a, amount_b) ==
    LET sum_x == amount_a + amount_b
    IN  IF sum_x = 0 THEN Ok(0)
        ELSE compute_d_loop(ann, amount_a, amount_b, sum_x, 0)

\* Mutant: a ceiling division without a quotient always yields 0.
compute_y_iteration_zero(b, c, d, y) ==
    LET numerator == try_u8_power(y, 2) + c
        denominator == try_sub(try_u8_mul(y, 2) + b, d)
        q == checked_ceil_div(numerator, denominator.val)
        y_new == IF q.some THEN q.val ELSE 0
    IN  IF ~denominator.ok THEN denominator ELSE Ok(y_new)

\* Mutant: the quotient is rounded down.
compute_y_iteration_floor(b, c, d, y) ==
    LET numerator == try_u8_power(y, 2) + c
        denominator == try_sub(try_u8_mul(y, 2) + b, d)
        q == try_div(numerator, denominator.val)
        y_new == IF q.ok /\ q.val > 0 THEN q.val
                 ELSE IF numerator = 0 THEN 0 ELSE 1
    IN  IF ~denominator.ok THEN denominator ELSE Ok(y_new)

\* One pass of the loop of compute_y: the next approximation of y
compute_y_iteration(b, c, d, y) ==
    LET numerator == try_u8_power(y, 2) + c
        denominator == try_sub(try_u8_mul(y, 2) + b, d)
        q == checked_ceil_div(numerator, denominator.val)
        y_new == IF q.some THEN q.val
                 ELSE IF numerator = 0 THEN 0 ELSE 1
    IN  IF ~denominator.ok THEN denominator ELSE Ok(y_new)

RECURSIVE compute_y_loop(_, _, _, _, _)
compute_y_loop(b, c, d, y, i) ==
    IF i = ITERATIONS THEN Ok(y)
    ELSE
        LET y_new == compute_y_iteration(b, c, d, y)
        IN  IF ~y_new.ok THEN y_new
            ELSE IF y_new.val = y THEN Ok(y)
            ELSE compute_y_loop(b, c, d, y_new.val, i + 1)

\* Mutant: c is the product of two quotients that are floored separately.
compute_y_coefficients_staged(ann, x, d) ==
    LET dann == try_div(d, ann)
        b == x + dann.val
        c1 == try_div(d * d, x * N_COINS)
        c2 == try_div(d, ann * N_COINS)
    IN  IF ~dann.ok THEN dann
        ELSE IF ~c1.ok THEN c1
        ELSE IF ~c2.ok THEN c2
        ELSE Ok([b |-> b, c |-> c1.val * c2.val])

\* The coefficients b and c that compute_y derives before its loop
compute_y_coefficients(ann, x, d) ==
    LET dann == try_div(d, ann)
        b == x + dann.val
        c1 == try_div(d * d, x * N_COINS)
        c2 == try_div(c1.val * d, ann * N_COINS)
    IN  IF ~dann.ok THEN dann
        ELSE IF ~c1.ok THEN c1
        ELSE IF ~c2.ok THEN c2
        ELSE Ok([b |-> b, c |-> c2.val])

compute_y(ann, x, d) ==
    LET coefficients == compute_y_coefficients(ann, x, d)
    IN  IF ~coefficients.ok THEN coefficients
        ELSE compute_y_loop(coefficients.val.b, coefficients.val.c, d, d, 0)

\* Mutant: a loop that uses up its iterations without meeting its termination
\* test reports an error.
loop_outcome_strict(i, met, iterate) ==
    IF met THEN [finished |-> TRUE, result |-> Ok(iterate)]
    ELSE IF i + 1 = ITERATIONS
         THEN [finished |-> TRUE, result |-> Err("CalculationFailure")]
    ELSE [finished |-> FALSE, result |-> Ok(iterate)]

\* How pass number i (from 0) of `for _ in 0..ITERATIONS` ends: the loop is
\* left by `break` when the termination test is met and by exhaustion after
\* the last pass; both return the current iterate.
loop_outcome(i, met, iterate) ==
    IF met THEN [finished |-> TRUE, result |-> Ok(iterate)]
    ELSE IF i + 1 = ITERATIONS
         THEN [finished |-> TRUE, result |-> Ok(iterate)]
    ELSE [finished |-> FALSE, result |-> Ok(iterate)]

\* Mutant: the factor > 0 check is missing and a zero factor scales by one.
scale_up_unchecked(source_amount, factor) ==
    IF factor > 1 THEN Ok(source_amount * factor)
    ELSE Ok(source_amount)

scale_up(source_amount, factor) ==
    IF ~(factor > 0) THEN Err("CalculationFailure")
    ELSE IF factor > 1 THEN Ok(source_amount * factor)
    ELSE Ok(source_amount)

\* Mutant: the remainder is dropped whatever round_up says.
scale_down_floor(source_amount, factor, round_up) ==
    IF ~(factor > 0) THEN Err("CalculationFailure")
    ELSE IF factor > 1 THEN Ok(source_amount \div factor)
    ELSE Ok(source_amount)

\* Mutant: the factor > 0 check is missing and a zero factor scales by one.
scale_down_unchecked(source_amount, factor, round_up) ==
    IF factor > 1
    THEN LET amount == source_amount \div factor
         IN  IF round_up /\ factor * amount < source_amount
             THEN Ok(amount + 1)
             ELSE Ok(amount)
    ELSE Ok(source_amount)

scale_down(source_amount, factor, round_up) ==
    IF ~(factor > 0) THEN Err("CalculationFailure")
    ELSE IF factor > 1
         THEN LET amount == source_amount \div factor
              IN  IF round_up /\ factor * amount < source_amount
                  THEN Ok(amount + 1)
                  ELSE Ok(amount)
    ELSE Ok(source_amount)

scale_swap_inputs(c, source_amount, pool_source_amount, pool_destination_amount, trade_direction) ==
    LET fs == IF trade_direction = AtoB THEN c.token_a_factor ELSE c.token_b_factor
        fd == IF trade_direction = AtoB THEN c.token_b_factor ELSE c.token_a_factor
        source_amt_scaled == scale_up(source_amount, fs)
        pool_source_amt_scaled == scale_up(pool_source_amount, fs)
        pool_dest_amt_scaled == scale_up(pool_destination_amount, fd)
    IN  IF ~source_amt_scaled.ok THEN source_amt_scaled
        ELSE IF ~pool_source_amt_scaled.ok THEN pool_source_amt_scaled
        ELSE IF ~pool_dest_amt_scaled.ok THEN pool_dest_amt_scaled
        ELSE Ok(<<source_amt_scaled.val, pool_source_amt_scaled.val, pool_dest_amt_scaled.val>>)

\* Mutant: the output is scaled by token_b_factor in both directions.
scale_swap_outputs_token_b(c, new_pool_destination_amount, trade_direction) ==
    scale_down(new_pool_destination_amount, c.token_b_factor, TRUE)

scale_swap_outputs(c, new_pool_destination_amount, trade_direction) ==
    LET factor == IF trade_direction = AtoB THEN c.token_b_factor ELSE c.token_a_factor
    IN  scale_down(new_pool_destination_amount, factor, TRUE)

SwapWithoutFeesResult(s, d) ==
    [source_amount_swapped |-> s, destination_amount_swapped |-> d]

\* The body of swap_without_fees after the source_amount == 0 early return.
swap_solve(c, source_amount, pool_source_amount, pool_destination_amount, trade_direction) ==
    LET ann == compute_ann(c.amp)
        scaled == scale_swap_inputs(c, source_amount, pool_source_amount,
                                    pool_destination_amount, trade_direction)
        source_amt_scaled == scaled.val[1]
        pool_source_amt_scaled == scaled.val[2]
        pool_dest_amt_scaled == scaled.val[3]
        new_source_amount == pool_source_amt_scaled + source_amt_scaled
        d == compute_d(ann, pool_source_amt_scaled, pool_dest_amt_scaled)
        new_destination_amount == compute_y(ann, new_source_amount, d.val)
        scaled_out == scale_swap_outputs(c, new_destination_amount.val, trade_direction)
        amount_swapped == try_sub(pool_destination_amount, scaled_out.val)
    IN  IF ~scaled.ok THEN scaled
        ELSE IF ~d.ok THEN d
        ELSE IF ~new_destination_amount.ok THEN new_destination_amount
        ELSE IF ~scaled_out.ok THEN scaled_out
        ELSE IF ~amount_swapped.ok THEN amount_swapped
        ELSE Ok(SwapWithoutFeesResult(source_amount, amount_swapped.val))

\* Mutant: the source_amount == 0 early return is missing.
swap_without_fees_unguarded(c, source_amount, pool_source_amount, pool_destination_amount, trade_direction) ==
    swap_solve(c, source_amount, pool_source_amount,
               pool_destination_amount, trade_direction)

swap_without_fees(c, source_amount, pool_source_amount, pool_destination_amount, trade_direction) ==
    IF source_amount = 0 THEN Ok(SwapWithoutFeesResult(0, 0))
    ELSE swap_solve(c, source_amount, pool_source_amount,
                    pool_destination_amount, trade_direction)

\* The production branch (cfg(not(any(test, feature = "fuzz")))): D of the
\* two reserves as given, without the scaling factors.
normalized_value(c, pool_token_a_amount, pool_token_b_amount) ==
    compute_d(compute_ann(c.amp), pool_token_a_amount, pool_token_b_amount)

\* Mutant: the lower bound is inclusive.
validate_inclusive(c) ==
    IF ~(c.amp >= MIN_AMP) THEN Err("InvalidCurve")
    ELSE IF ~(c.amp < MAX_AMP) THEN Err("InvalidCurve")
    ELSE Ok(<<>>)

\* StableCurve::validate
validate(c) ==
    IF ~(c.amp > MIN_AMP) THEN Err("InvalidCurve")
    ELSE IF ~(c.amp < MAX_AMP) THEN Err("InvalidCurve")
    ELSE Ok(<<>>)

\* Mutant: only the token A supply is checked.
validate_supply_token_a(c, token_a_amount, token_b_amount) ==
    IF ~(token_a_amount > 0) THEN Err("EmptySupply")
    ELSE Ok(<<>>)

\* CurveCalculator::validate_supply (the default, which StableCurve keeps)
validate_supply(c, token_a_amount, token_b_amount) ==
    IF ~(token_a_amount > 0) THEN Err("EmptySupply")
    ELSE IF ~(token_b_amount > 0) THEN Err("EmptySupply")
    ELSE Ok(<<>>)

\* utils::math::decimals_to_factor: the side with fewer decimals is scaled up
\* to the decimals of the other side (run_swap_scenarios: 6/9 decimals scale
\* token A by 1000 and token B by 1).
decimals_to_factor(source_decimals, destination_decimals) ==
    IF destination_decimals > source_decimals
    THEN 10 ^ (destination_decimals - source_decimals)
    ELSE 1

\* StableCurve::new(amp, token_a_decimals, token_b_decimals)
StableCurve_new(amp, token_a_decimals, token_b_decimals) ==
    [amp |-> amp,
     token_a_factor |-> decimals_to_factor(token_a_decimals, token_b_decimals),
     token_b_factor |-> decimals_to_factor(token_b_decimals, token_a_decimals)]

\* scale_decimal of the stable curve's tests
scale_decimal(amount, current_decimals, new_decimals, round_up) ==
    IF current_decimals > new_decimals
    THEN LET factor == 10 ^ (current_decimals - new_decimals)
             amt == amount \div factor
         IN  IF round_up /\ amount % factor > 0 THEN amt + 1 ELSE amt
    ELSE IF current_decimals < new_decimals
    THEN amount * 10 ^ (new_decimals - current_decimals)
    ELSE amount

(***************************************************************************)
(* curve/math.rs (shared pool-token split) and its use by the stable curve *)
(***************************************************************************)
TradingTokenResult(a, b) == [token_a_amount |-> a, token_b_amount |-> b]

\* One side of the shared split: pool_tokens * reserve / pool_token_supply,
\* floored; Ceiling adds one when there is a remainder and the floor is not
\* zero (run_deposit_scenarios: 1 of 100 pool tokens against a reserve of 1
\* gives 0, against 999 gives 10).
trading_token_share(pool_tokens, pool_token_supply, reserve, round_direction) ==
    LET product == pool_tokens * reserve
        amount == product \div pool_token_supply
        remainder == product % pool_token_supply
    IN  IF round_direction = Ceiling /\ remainder > 0 /\ amount > 0
        THEN amount + 1
        ELSE amount

pool_tokens_to_trading_tokens(pool_tokens, pool_token_supply, swap_token_a_amount, swap_token_b_amount, round_direction) ==
    IF pool_token_supply = 0 THEN Err("CalculationFailure")
    ELSE Ok(TradingTokenResult(
            trading_token_share(pool_tokens, pool_token_supply,
                                swap_token_a_amount, round_direction),
            trading_token_share(pool_tokens, pool_token_supply,
                                swap_token_b_amount, round_direction)))

\* Mutant: the two reserves are passed in the wrong order.
stable_pool_tokens_to_trading_tokens_swapped(c, pool_tokens, pool_token_supply, pool_token_a_amount, pool_token_b_amount, round_direction) ==
    pool_tokens_to_trading_tokens(pool_tokens, pool_token_supply,
        pool_token_b_amount, pool_token_a_amount, round_direction)

\* Mutant: the round direction is dropped and the split always floors.
stable_pool_tokens_to_trading_tokens_floor(c, pool_tokens, pool_token_supply, pool_token_a_amount, pool_token_b_amount, round_direction) ==
    pool_tokens_to_trading_tokens(pool_tokens, pool_token_supply,
        pool_token_a_amount, pool_token_b_amount, Floor)

\* StableCurve::pool_tokens_to_trading_tokens
stable_pool_tokens_to_trading_tokens(c, pool_tokens, pool_token_supply, pool_token_a_amount, pool_token_b_amount, round_direction) ==
    pool_tokens_to_trading_tokens(pool_tokens, pool_token_supply,
        pool_token_a_amount, pool_token_b_amount, round_direction)

(***************************************************************************)
(* utils/token_2022.rs                                                     *)
(***************************************************************************)
ceil_div(numerator, denominator) ==
    (numerator + denominator - 1) \div denominator

\* TransferFeeConfig::calculate_epoch_fee of spl-token-2022: the fee in force
\* is ceil(amount * bps / 10_000) capped at maximum_fee
\* (test_sub_transfer_fee_rounds_up_when_small_fee: 10 bps of 100 is 1).
calculate_epoch_fee(fee, pre_fee_amount) ==
    IF fee.transfer_fee_basis_points = 0 \/ pre_fee_amount = 0 THEN 0
    ELSE LET raw_fee == ceil_div(pre_fee_amount * fee.transfer_fee_basis_points,
                                 ONE_IN_BASIS_POINTS)
         IN  IF raw_fee < fee.maximum_fee THEN raw_fee ELSE fee.maximum_fee

calculate_pre_fee_amount(fee, post_fee_amount) ==
    IF fee.transfer_fee_basis_points = 0 THEN post_fee_amount
    ELSE IF post_fee_amount = 0 THEN 0
    ELSE LET raw_pre_fee_amount ==
                 ceil_div(post_fee_amount * ONE_IN_BASIS_POINTS,
                          ONE_IN_BASIS_POINTS - fee.transfer_fee_basis_points)
         IN  IF raw_pre_fee_amount - post_fee_amount >= fee.maximum_fee
             THEN post_fee_amount + fee.maximum_fee
             ELSE raw_pre_fee_amount

\* TransferFeeConfig::calculate_inverse_epoch_fee of spl-token-2022
\* (test_add_inverse_transfer_fee_rounds_up_when_small_fee: 100 -> 101).
calculate_inverse_epoch_fee(fee, post_fee_amount) ==
    calculate_epoch_fee(fee, calculate_pre_fee_amount(fee, post_fee_amount))

\* transfer_fees: Option<(&TransferFeeConfig, Epoch)>; `some` is FALSE for None.
NoTransferFees == [some |-> FALSE, transfer_fee_basis_points |-> 0, maximum_fee |-> 0]

\* Mutant: the fee is added to the amount instead of being taken from it.
sub_transfer_fee_added(transfer_fees, amount) ==
    IF ~transfer_fees.some THEN Ok(amount)
    ELSE Ok(amount + calculate_epoch_fee(transfer_fees, amount))

sub_transfer_fee(transfer_fees, amount) ==
    IF ~transfer_fees.some THEN Ok(amount)
    ELSE try_sub(amount, calculate_epoch_fee(transfer_fees, amount))

\* Mutant: the forward fee of the post-fee amount is used as the inverse fee.
add_inverse_transfer_fee_forward(transfer_fees, post_fee_amount) ==
    IF ~transfer_fees.some THEN Ok(post_fee_amount)
    ELSE Ok(post_fee_amount + calculate_epoch_fee(transfer_fees, post_fee_amount))

add_inverse_transfer_fee(transfer_fees, post_fee_amount) ==
    IF ~transfer_fees.some THEN Ok(post_fee_amount)
    ELSE Ok(post_fee_amount + calculate_inverse_epoch_fee(transfer_fees, post_fee_amount))

\* curve::fees::calculate_fee: token_amount * numerator / denominator, floored,
\* with a minimum fee of one token; no fee for a zero numerator or amount
\* (Fees::default() has denominators 0 and charges nothing).
calculate_fee(token_amount, fee_numerator, fee_denominator) ==
    IF fee_numerator = 0 \/ token_amount = 0 THEN Ok(0)
    ELSE LET fee == try_div(token_amount * fee_numerator, fee_denominator)
         IN  IF ~fee.ok THEN fee
             ELSE IF fee.val = 0 THEN Ok(1)
             ELSE fee

\* Fees::owner_trading_fee
owner_trading_fee(fees, trading_tokens) ==
    calculate_fee(trading_tokens, fees.owner_trade_fee_numerator,
                  fees.owner_trade_fee_denominator)

\* Fees::host_fee
host_fee(fees, owner_fee) ==
    calculate_fee(owner_fee, fees.host_fee_numerator, fees.host_fee_denominator)

\* The transfer-fee branch of sub_input_transfer_fees once the owner and host
\* shares are known: one transfer to the vault, one to the owner fees vault
\* and, with a host, one to the host account.
sub_input_legs(transfer_fees, amount_in, owner_and_host_fee, host_fee_amount) ==
    LET host_transfer_fee == calculate_epoch_fee(transfer_fees, host_fee_amount)
        owner_fee == try_sub(owner_and_host_fee, host_fee_amount)
        owner_transfer_fee == calculate_epoch_fee(transfer_fees, owner_fee.val)
        vault_amount_in == try_sub(amount_in, owner_and_host_fee)
        vault_transfer_fee == calculate_epoch_fee(transfer_fees, vault_amount_in.val)
        sub_vault == try_sub(amount_in, vault_transfer_fee)
        sub_owner == try_sub(sub_vault.val, owner_transfer_fee)
        sub_host == try_sub(sub_owner.val, host_transfer_fee)
    IN  IF ~owner_fee.ok THEN owner_fee
        ELSE IF ~vault_amount_in.ok THEN vault_amount_in
        ELSE IF ~sub_vault.ok THEN sub_vault
        ELSE IF ~sub_owner.ok THEN sub_owner
        ELSE sub_host

\* Mutant: the vault leg is charged on the whole input instead of on the
\* input less the owner and host fee.
sub_input_transfer_fees_gross(transfer_fees, fees, amount_in, with_host_fee) ==
    IF ~transfer_fees.some THEN Ok(amount_in)
    ELSE LET owner_and_host_fee == owner_trading_fee(fees, amount_in)
             host_fee_amount == IF with_host_fee
                                THEN host_fee(fees, owner_and_host_fee.val)
                                ELSE Ok(0)
             legs == sub_input_legs(transfer_fees, amount_in,
                                    owner_and_host_fee.val, host_fee_amount.val)
         IN  IF ~owner_and_host_fee.ok THEN owner_and_host_fee
             ELSE IF ~host_fee_amount.ok THEN host_fee_amount
             ELSE IF ~legs.ok THEN legs
             ELSE try_sub(legs.val, calculate_epoch_fee(transfer_fees, owner_and_host_fee.val))

sub_input_transfer_fees(transfer_fees, fees, amount_in, with_host_fee) ==
    IF ~transfer_fees.some THEN Ok(amount_in)
    ELSE LET owner_and_host_fee == owner_trading_fee(fees, amount_in)
             host_fee_amount == IF with_host_fee
                                THEN host_fee(fees, owner_and_host_fee.val)
                                ELSE Ok(0)
         IN  IF ~owner_and_host_fee.ok THEN owner_and_host_fee
             ELSE IF ~host_fee_amount.ok THEN host_fee_amount
             ELSE sub_input_legs(transfer_fees, amount_in,
                                 owner_and_host_fee.val, host_fee_amount.val)

(***************************************************************************)
(* instructions/withdraw_all_token_types.rs and the deposit instruction    *)
(***************************************************************************)
\* The pool-token accounts: the initial holder, a liquidity provider and the
\* pool-token fees vault
Signers == {"admin", "user"}

Holders == Signers \cup {"pool_token_fees_vault"}

min_u64(a, b) == IF a <= b THEN a ELSE b

\* Fees::owner_withdraw_fee
owner_withdraw_fee(fees, pool_tokens) ==
    calculate_fee(pool_tokens, fees.owner_withdraw_fee_numerator,
                  fees.owner_withdraw_fee_denominator)

WithdrawAmounts(fee, burned, a, b) ==
    [withdraw_fee |-> fee, pool_token_amount |-> burned,
     token_a_amount |-> a, token_b_amount |-> b]

\* Mutant: the withdrawal is split with Ceiling rounding.
withdraw_amounts_ceiling(c, p, pool_token_amount) ==
    LET withdraw_fee == owner_withdraw_fee(p.fees, pool_token_amount)
        burned == try_sub(pool_token_amount, withdraw_fee.val)
        results == stable_pool_tokens_to_trading_tokens(c, burned.val,
                       p.pool_token_mint_supply, p.token_a_vault,
                       p.token_b_vault, Ceiling)
    IN  IF ~withdraw_fee.ok THEN Err("FeeCalculationFailure")
        ELSE IF ~burned.ok THEN burned
        ELSE IF ~results.ok THEN Err("ZeroTradingTokens")
        ELSE Ok(WithdrawAmounts(withdraw_fee.val, burned.val,
                    min_u64(p.token_a_vault, results.val.token_a_amount),
                    min_u64(p.token_b_vault, results.val.token_b_amount)))

\* The amounts the handler computes before it checks them: the withdraw fee,
\* the pool tokens left to burn, and each side's share of the vaults
withdraw_amounts(c, p, pool_token_amount) ==
    LET withdraw_fee == owner_withdraw_fee(p.fees, pool_token_amount)
        burned == try_sub(pool_token_amount, withdraw_fee.val)
        results == stable_pool_tokens_to_trading_tokens(c, burned.val,
                       p.pool_token_mint_supply, p.token_a_vault,
                       p.token_b_vault, Floor)
    IN  IF ~withdraw_fee.ok THEN Err("FeeCalculationFailure")
        ELSE IF ~burned.ok THEN burned
        ELSE IF ~results.ok THEN Err("ZeroTradingTokens")
        ELSE Ok(WithdrawAmounts(withdraw_fee.val, burned.val,
                    min_u64(p.token_a_vault, results.val.token_a_amount),
                    min_u64(p.token_b_vault, results.val.token_b_amount)))

\* Mutant: the zero-amount requirements are left out.
withdraw_checks_slippage_only(p, w, minimum_token_a_amount, minimum_token_b_amount) ==
    IF ~(w.token_a_amount >= minimum_token_a_amount) THEN "ExceededSlippage"
    ELSE IF ~(w.token_b_amount >= minimum_token_b_amount) THEN "ExceededSlippage"
    ELSE "none"

\* Mutant: the slippage requirements are left out.
withdraw_checks_zero_only(p, w, minimum_token_a_amount, minimum_token_b_amount) ==
    IF ~(w.token_a_amount > 0 \/ p.token_a_vault = 0) THEN "ZeroTradingTokens"
    ELSE IF ~(w.token_b_amount > 0 \/ p.token_b_vault = 0) THEN "ZeroTradingTokens"
    ELSE "none"

\* The requirements on the computed amounts, in the handler's order; "none"
\* when all of them hold
withdraw_checks(p, w, minimum_token_a_amount, minimum_token_b_amount) ==
    IF ~(w.token_a_amount >= minimum_token_a_amount) THEN "ExceededSlippage"
    ELSE IF ~(w.token_a_amount > 0 \/ p.token_a_vault = 0) THEN "ZeroTradingTokens"
    ELSE IF ~(w.token_b_amount >= minimum_token_b_amount) THEN "ExceededSlippage"
    ELSE IF ~(w.token_b_amount > 0 \/ p.token_b_vault = 0) THEN "ZeroTradingTokens"
    ELSE "none"

\* Mutant: the burn debits the account and leaves the mint supply alone.
withdraw_transfers_supply_kept(p, signer, w) ==
    [p EXCEPT
        !.pool_token_balance =
            [h \in Holders |->
                IF h = signer
                THEN p.pool_token_balance[h] - w.withdraw_fee - w.pool_token_amount
                ELSE IF h = "pool_token_fees_vault"
                THEN p.pool_token_balance[h] + w.withdraw_fee
                ELSE p.pool_token_balance[h]],
        !.token_a_vault = p.token_a_vault - w.token_a_amount,
        !.token_b_vault = p.token_b_vault - w.token_b_amount]

\* Mutant: the fee reaches the fees vault without leaving the signer's account.
withdraw_transfers_fee_kept(p, signer, w) ==
    [p EXCEPT
        !.pool_token_balance =
            [h \in Holders |->
                IF h = signer
                THEN p.pool_token_balance[h] - w.pool_token_amount
                ELSE IF h = "pool_token_fees_vault"
                THEN p.pool_token_balance[h] + w.withdraw_fee
                ELSE p.pool_token_balance[h]],
        !.pool_token_mint_supply = p.pool_token_mint_supply - w.pool_token_amount,
        !.token_a_vault = p.token_a_vault - w.token_a_amount,
        !.token_b_vault = p.token_b_vault - w.token_b_amount]

\* The token instructions of a withdrawal: the fee goes from the signer's
\* pool-token account to the fees vault, the rest is burned, and the two
\* amounts leave the vaults
withdraw_transfers(p, signer, w) ==
    [p EXCEPT
        !.pool_token_balance =
            [h \in Holders |->
                IF h = signer
                THEN p.pool_token_balance[h] - w.withdraw_fee - w.pool_token_amount
                ELSE IF h = "pool_token_fees_vault"
                THEN p.pool_token_balance[h] + w.withdraw_fee
                ELSE p.pool_token_balance[h]],
        !.pool_token_mint_supply = p.pool_token_mint_supply - w.pool_token_amount,
        !.token_a_vault = p.token_a_vault - w.token_a_amount,
        !.token_b_vault = p.token_b_vault - w.token_b_amount]

Handled(result, p) == [result |-> result, pool |-> p]

\* withdraw_all_token_types::handler; a failed instruction leaves every account
\* as it was
withdraw_all_token_types(c, p, signer, pool_token_amount, minimum_token_a_amount, minimum_token_b_amount) ==
    LET w == withdraw_amounts(c, p, pool_token_amount)
        failed == withdraw_checks(p, w.val, minimum_token_a_amount,
                                  minimum_token_b_amount)
    IN  IF ~w.ok THEN Handled(w, p)
        ELSE IF failed # "none" THEN Handled(Err(failed), p)
        ELSE IF p.pool_token_balance[signer] < w.val.withdraw_fee + w.val.pool_token_amount
        THEN Handled(Err("InsufficientFunds"), p)
        ELSE Handled(Ok(w.val), withdraw_transfers(p, signer, w.val))

\* The requirements of a deposit on the amounts it asks for (test_deposit.rs)
deposit_checks(w, maximum_token_a_amount, maximum_token_b_amount) ==
    IF w.token_a_amount > maximum_token_a_amount THEN "ExceededSlippage"
    ELSE IF w.token_a_amount = 0 THEN "ZeroTradingTokens"
    ELSE IF w.token_b_amount > maximum_token_b_amount THEN "ExceededSlippage"
    ELSE IF w.token_b_amount = 0 THEN "ZeroTradingTokens"
    ELSE "none"

\* The token instructions of a deposit: both amounts enter the vaults and the
\* pool tokens are minted to the signer
deposit_transfers(p, signer, pool_token_amount, w) ==
    [p EXCEPT
        !.pool_token_balance[signer] = @ + pool_token_amount,
        !.pool_token_mint_supply = @ + pool_token_amount,
        !.token_a_vault = @ + w.token_a_amount,
        !.token_b_vault = @ + w.token_b_amount]

\* The deposit instruction (test_deposit.rs)
deposit(c, p, signer, pool_token_amount, maximum_token_a_amount, maximum_token_b_amount) ==
    LET w == stable_pool_tokens_to_trading_tokens(c, pool_token_amount,
                 p.pool_token_mint_supply, p.token_a_vault, p.token_b_vault,
                 Ceiling)
        failed == deposit_checks(w.val, maximum_token_a_amount,
                                 maximum_token_b_amount)
    IN  IF ~w.ok THEN Handled(Err("ZeroTradingTokens"), p)
        ELSE IF failed # "none" THEN Handled(Err(failed), p)
        ELSE Handled(Ok(w.val), deposit_transfers(p, signer, pool_token_amount, w.val))

\* The vaults after a swap (check_curve_value_from_swap): the source side
\* gains what was swapped in, the destination side loses what was released
swap_vaults(p, trade_direction, results) ==
    IF trade_direction = AtoB
    THEN [p EXCEPT !.token_a_vault = @ + results.source_amount_swapped,
                   !.token_b_vault = @ - results.destination_amount_swapped]
    ELSE [p EXCEPT !.token_b_vault = @ + results.source_amount_swapped,
                   !.token_a_vault = @ - results.destination_amount_swapped]

(***************************************************************************)
(* Specification of the swap                                               *)
(***************************************************************************)
Factors == {0, 1, 10}

Curves ==
    [amp : MIN_AMP..MaxAmp, token_a_factor : Factors, token_b_factor : Factors]

NoCurve == [amp |-> 0, token_a_factor |-> 0, token_b_factor |-> 0]

InitSwap ==
    /\ pc = "swap"
    /\ op = "none"
    /\ curve \in Curves
    /\ inp \in [pool_source_amount : 0..MaxReserve,
                pool_destination_amount : 0..MaxReserve]
    /\ out = Err("none")
    /\ pool = NoPool

Swap ==
    /\ pc = "swap"
    /\ \E source_amount \in 0..MaxSource, trade_direction \in TradeDirection :
        /\ inp' = [source_amount |-> source_amount,
                   pool_source_amount |-> inp.pool_source_amount,
                   pool_destination_amount |-> inp.pool_destination_amount,
                   trade_direction |-> trade_direction]
        /\ out' = swap_without_fees(curve, source_amount, inp.pool_source_amount,
                                    inp.pool_destination_amount, trade_direction)
    /\ op' = "swap"
    /\ pc' = "done"
    /\ UNCHANGED <<curve, pool>>

NextSwap == Swap

SpecSwap == InitSwap /\ [][NextSwap]_vars

(***************************************************************************)
(* Specification of the pool-token split: a deposit asks for the Ceiling   *)
(* split, a withdrawal for the Floor split (check_pool_value_from_deposit, *)
(* check_pool_value_from_withdraw).                                        *)
(***************************************************************************)
SplitCurves ==
    [amp : MIN_AMP..MaxAmp, token_a_factor : {1}, token_b_factor : {1}]

InitSplit ==
    /\ pc = "split"
    /\ op = "none"
    /\ curve \in SplitCurves
    /\ inp \in [pool_token_supply : 0..MaxSupply,
                swap_token_a_amount : 0..MaxReserve,
                swap_token_b_amount : 0..MaxReserve]
    /\ out = Err("none")
    /\ pool = NoPool

Split(name, round_direction) ==
    /\ pc = "split"
    /\ \E pool_token_amount \in 0..MaxSupply :
        /\ inp' = [pool_token_amount |-> pool_token_amount,
                   pool_token_supply |-> inp.pool_token_supply,
                   swap_token_a_amount |-> inp.swap_token_a_amount,
                   swap_token_b_amount |-> inp.swap_token_b_amount,
                   round_direction |-> round_direction]
        /\ out' = stable_pool_tokens_to_trading_tokens(curve, pool_token_amount,
                      inp.pool_token_supply, inp.swap_token_a_amount,
                      inp.swap_token_b_amount, round_direction)
    /\ op' = name
    /\ pc' = "done"
    /\ UNCHANGED <<curve, pool>>

Deposit == Split("deposit", Ceiling)

Withdraw == Split("withdraw", Floor)

NextSplit == Deposit \/ Withdraw

SpecSplit == InitSplit /\ [][NextSplit]_vars

(***************************************************************************)
(* Specification of the transfer-fee adapter                               *)
(***************************************************************************)
FeeRates == {0, 10, 2500, 5000, 5001, 7500, 9999}

MaximumFees == {1, 3, FeeCapNone}

TransferFeeConfigs ==
    {NoTransferFees} \cup
    [some : {TRUE}, transfer_fee_basis_points : FeeRates, maximum_fee : MaximumFees]

InitFee ==
    /\ pc = "fee"
    /\ op = "none"
    /\ curve = NoCurve
    /\ inp \in [transfer_fees : TransferFeeConfigs, amount : 0..MaxAmount]
    /\ out = Err("none")
    /\ pool = NoPool

\* sub_transfer_fee followed by add_inverse_transfer_fee on what was received
SubThenAddInverse ==
    /\ pc = "fee"
    /\ LET receive_amount == sub_transfer_fee(inp.transfer_fees, inp.amount)
       IN  /\ inp' = [transfer_fees |-> inp.transfer_fees,
                      amount |-> inp.amount,
                      intermediate |-> receive_amount]
           /\ out' = IF receive_amount.ok
                     THEN add_inverse_transfer_fee(inp.transfer_fees, receive_amount.val)
                     ELSE receive_amount
    /\ op' = "sub_then_add_inverse"
    /\ pc' = "done"
    /\ UNCHANGED <<curve, pool>>

\* add_inverse_transfer_fee followed by sub_transfer_fee on what is to be sent
AddInverseThenSub ==
    /\ pc = "fee"
    /\ LET pre_fee_amount == add_inverse_transfer_fee(inp.transfer_fees, inp.amount)
       IN  /\ inp' = [transfer_fees |-> inp.transfer_fees,
                      amount |-> inp.amount,
                      intermediate |-> pre_fee_amount]
           /\ out' = IF pre_fee_amount.ok
                     THEN sub_transfer_fee(inp.transfer_fees, pre_fee_amount.val)
                     ELSE pre_fee_amount
    /\ op' = "add_inverse_then_sub"
    /\ pc' = "done"
    /\ UNCHANGED <<curve, pool>>

\* Fee fractions with the numerator not above the denominator; 0/0 is the
\* fraction of Fees::default().
FeeFractions ==
    {f \in (0..MaxFeeDenominator) \X (0..MaxFeeDenominator) : f[1] <= f[2]}

FeesConfigs ==
    {[owner_trade_fee_numerator |-> o[1], owner_trade_fee_denominator |-> o[2],
      host_fee_numerator |-> h[1], host_fee_denominator |-> h[2]] :
        o \in FeeFractions, h \in FeeFractions}

\* sub_input_transfer_fees, with the one-shot sub_transfer_fee of the same
\* amount kept in `intermediate` for comparison
SubInputTransferFees ==
    /\ pc = "fee"
    /\ \E fees \in FeesConfigs, with_host_fee \in BOOLEAN :
        /\ inp' = [transfer_fees |-> inp.transfer_fees,
                   amount |-> inp.amount,
                   fees |-> fees,
                   host_fee |-> with_host_fee,
                   intermediate |-> sub_transfer_fee(inp.transfer_fees, inp.amount)]
        /\ out' = sub_input_transfer_fees(inp.transfer_fees, fees,
                                          inp.amount, with_host_fee)
    /\ op' = "sub_input_transfer_fees"
    /\ pc' = "done"
    /\ UNCHANGED <<curve, pool>>

NextFee == SubThenAddInverse \/ AddInverseThenSub \/ SubInputTransferFees

SpecFee == InitFee /\ [][NextFee]_vars

(***************************************************************************)
(* Specification of the decimals comparison: the same AtoB swap on a 6/6   *)
(* curve and, scaled, on a curve whose tokens have more decimals           *)
(* (compare_swap_pool_with_different_decimals).                            *)
(***************************************************************************)
Decimals == {7, 8}

InitDecimals ==
    /\ pc = "decimals"
    /\ op = "none"
    /\ \E amp \in MIN_AMP..MaxAmp, token_a_decimals \in Decimals, token_b_decimals \in Decimals :
        /\ curve = StableCurve_new(amp, token_a_decimals, token_b_decimals)
        /\ inp \in [token_a_decimals : {token_a_decimals},
                    token_b_decimals : {token_b_decimals},
                    pool_source_amount : 1..MaxPoolAmount,
                    pool_destination_amount : 1..MaxPoolAmount]
    /\ out = Err("none")
    /\ pool = NoPool

CompareSwapDecimals ==
    /\ pc = "decimals"
    /\ \E source_token_amount \in 1..MaxSource :
        LET stable_curve == StableCurve_new(curve.amp, 6, 6)
            stable_result ==
                swap_without_fees(stable_curve, source_token_amount,
                    inp.pool_source_amount, inp.pool_destination_amount, AtoB)
            stable_mismatched_result ==
                swap_without_fees(curve,
                    scale_decimal(source_token_amount, 6, inp.token_a_decimals, FALSE),
                    scale_decimal(inp.pool_source_amount, 6, inp.token_a_decimals, FALSE),
                    scale_decimal(inp.pool_destination_amount, 6, inp.token_b_decimals, FALSE),
                    AtoB)
        IN  /\ inp' = [token_a_decimals |-> inp.token_a_decimals,
                       token_b_decimals |-> inp.token_b_decimals,
                       pool_source_amount |-> inp.pool_source_amount,
                       pool_destination_amount |-> inp.pool_destination_amount,
                       source_amount |-> source_token_amount,
                       intermediate |-> stable_result]
            /\ out' = IF ~stable_mismatched_result.ok THEN stable_mismatched_result
                      ELSE Ok(SwapWithoutFeesResult(
                               scale_decimal(stable_mismatched_result.val.source_amount_swapped,
                                             inp.token_a_decimals, 6, TRUE),
                               scale_decimal(stable_mismatched_result.val.destination_amount_swapped,
                                             inp.token_b_decimals, 6, FALSE)))
    /\ op' = "compare_decimals"
    /\ pc' = "done"
    /\ UNCHANGED <<curve, pool>>

NextDecimals == CompareSwapDecimals

SpecDecimals == InitDecimals /\ [][NextDecimals]_vars

(***************************************************************************)
(* Specification of the validation of a curve and of its initial supply    *)
(***************************************************************************)
AmpValues == {0} \cup (MIN_AMP..MaxAmp) \cup {MAX_AMP - 1, MAX_AMP, MAX_AMP + 1}

ValidateCurves ==
    [amp : AmpValues, token_a_factor : Factors, token_b_factor : Factors]

InitValidate ==
    /\ pc = "validate"
    /\ op = "none"
    /\ curve \in ValidateCurves
    /\ inp \in [token_a_amount : 0..MaxReserve, token_b_amount : 0..MaxReserve]
    /\ out = Err("none")
    /\ pool = NoPool

Validate ==
    /\ pc = "validate"
    /\ out' = validate(curve)
    /\ op' = "validate"
    /\ pc' = "done"
    /\ UNCHANGED <<curve, inp, pool>>

ValidateSupply ==
    /\ pc = "validate"
    /\ out' = validate_supply(curve, inp.token_a_amount, inp.token_b_amount)
    /\ op' = "validate_supply"
    /\ pc' = "done"
    /\ UNCHANGED <<curve, inp, pool>>

NextValidate == Validate \/ ValidateSupply

SpecValidate == InitValidate /\ [][NextValidate]_vars

(***************************************************************************)
(* Specification of the solvers run pass by pass, as swap_without_fees     *)
(* runs them on a curve without scaling: compute_d on the two reserves,    *)
(* then compute_y on the new source reserve and D.  inp.i counts the       *)
(* passes of the current loop that have completed, inp.iterate is the      *)
(* current d (or y) and inp.met tells whether the last pass met the        *)
(* termination test.                                                       *)
(***************************************************************************)
InitSolver ==
    /\ pc = "solve"
    /\ op = "none"
    /\ curve \in SplitCurves
    /\ inp \in [amount_a : 0..MaxSolverAmount, amount_b : 0..MaxSolverAmount]
    /\ out = Err("none")
    /\ pool = NoPool

\* compute_d up to its loop
StartComputeD ==
    /\ pc = "solve"
    /\ LET sum_x == inp.amount_a + inp.amount_b
       IN  /\ inp' = [amount_a |-> inp.amount_a, amount_b |-> inp.amount_b,
                      iterate |-> sum_x, i |-> 0, met |-> (sum_x = 0)]
           /\ out' = IF sum_x = 0 THEN Ok(0) ELSE out
           /\ pc' = IF sum_x = 0 THEN "d_done" ELSE "compute_d"
    /\ op' = "compute_d"
    /\ UNCHANGED <<curve, pool>>

\* One pass of the loop of compute_d
StepComputeD ==
    /\ pc = "compute_d"
    /\ LET d == compute_d_iteration(compute_ann(curve.amp), inp.amount_a,
                                    inp.amount_b, inp.iterate)
           met == abs_diff(d.val, inp.iterate) <= 1
           outcome == loop_outcome(inp.i, met, d.val)
       IN  IF ~d.ok
           THEN /\ out' = d
                /\ pc' = "done"
                /\ UNCHANGED inp
           ELSE /\ inp' = [inp EXCEPT !.iterate = d.val, !.i = inp.i + 1, !.met = met]
                /\ out' = IF outcome.finished THEN outcome.result ELSE out
                /\ pc' = IF ~outcome.finished THEN "compute_d"
                         ELSE IF outcome.result.ok THEN "d_done" ELSE "done"
    /\ UNCHANGED <<op, curve, pool>>

\* compute_y up to its loop, on the reserve after source_amount has come in
StartComputeY ==
    /\ pc = "d_done"
    /\ \E source_amount \in 1..MaxSource :
        LET x == inp.amount_a + source_amount
            d == out.val
            coefficients == compute_y_coefficients(compute_ann(curve.amp), x, d)
        IN  IF ~coefficients.ok
            THEN /\ out' = coefficients
                 /\ pc' = "done"
                 /\ inp' = [amount_a |-> inp.amount_a, amount_b |-> inp.amount_b,
                            x |-> x, d |-> d, b |-> 0, c |-> 0,
                            iterate |-> d, i |-> 0, met |-> FALSE]
            ELSE /\ out' = Err("none")
                 /\ pc' = "compute_y"
                 /\ inp' = [amount_a |-> inp.amount_a, amount_b |-> inp.amount_b,
                            x |-> x, d |-> d,
                            b |-> coefficients.val.b, c |-> coefficients.val.c,
                            iterate |-> d, i |-> 0, met |-> FALSE]
    /\ op' = "compute_y"
    /\ UNCHANGED <<curve, pool>>

\* One pass of the loop of compute_y
StepComputeY ==
    /\ pc = "compute_y"
    /\ LET y_new == compute_y_iteration(inp.b, inp.c, inp.d, inp.iterate)
           met == y_new.val = inp.iterate
           outcome == loop_outcome(inp.i, met, y_new.val)
       IN  IF ~y_new.ok
           THEN /\ out' = y_new
                /\ pc' = "done"
                /\ UNCHANGED inp
           ELSE /\ inp' = [inp EXCEPT !.iterate = y_new.val, !.i = inp.i + 1, !.met = met]
                /\ out' = IF outcome.finished THEN outcome.result ELSE out
                /\ pc' = IF outcome.finished THEN "done" ELSE "compute_y"
    /\ UNCHANGED <<op, curve, pool>>

NextSolver == StartComputeD \/ StepComputeD \/ StartComputeY \/ StepComputeY

SpecSolver == InitSolver /\ [][NextSolver]_vars

(***************************************************************************)
(* Specification of the trade direction                                    *)
(***************************************************************************)
\* The curve with the factors of the two tokens exchanged
mirrored(c) ==
    [amp |-> c.amp, token_a_factor |-> c.token_b_factor,
     token_b_factor |-> c.token_a_factor]

InitDirection ==
    /\ pc = "direction"
    /\ op = "none"
    /\ curve \in Curves
    /\ inp \in [pool_source_amount : 0..MaxReserve,
                pool_destination_amount : 0..MaxReserve]
    /\ out = Err("none")
    /\ pool = NoPool

\* direction.opposite() and direction.opposite().opposite()
Opposite ==
    /\ pc = "direction"
    /\ \E trade_direction \in TradeDirection :
        /\ inp' = [trade_direction |-> trade_direction,
                   intermediate |-> opposite(trade_direction)]
        /\ out' = Ok(opposite(opposite(trade_direction)))
    /\ op' = "opposite"
    /\ pc' = "done"
    /\ UNCHANGED <<curve, pool>>

\* The same swap from B to A on the curve and from A to B on the curve with
\* the two factors exchanged
SwapMirrored ==
    /\ pc = "direction"
    /\ \E source_amount \in 0..MaxSource :
        /\ inp' = [source_amount |-> source_amount,
                   pool_source_amount |-> inp.pool_source_amount,
                   pool_destination_amount |-> inp.pool_destination_amount,
                   intermediate |->
                       swap_without_fees(mirrored(curve), source_amount,
                           inp.pool_source_amount,
                           inp.pool_destination_amount, AtoB)]
        /\ out' = swap_without_fees(curve, source_amount, inp.pool_source_amount,
                                    inp.pool_destination_amount, BtoA)
    /\ op' = "swap_mirrored"
    /\ pc' = "done"
    /\ UNCHANGED <<curve, pool>>

NextDirection == Opposite \/ SwapMirrored

SpecDirection == InitDirection /\ [][NextDirection]_vars

(***************************************************************************)
(* Specification of a swap there and back                                  *)
(***************************************************************************)
\* Curves that validate accepts, both tokens with the same decimals
PoolCurves ==
    [amp : (MIN_AMP + 1)..MaxAmp, token_a_factor : {1}, token_b_factor : {1}]

InitTrip ==
    /\ pc = "trip"
    /\ op = "none"
    /\ curve \in PoolCurves
    /\ inp \in [pool_source_amount : 1..MaxTripAmount,
                pool_destination_amount : 1..MaxTripAmount]
    /\ out = Err("none")
    /\ pool = NoPool

\* The swap there
TripOut ==
    /\ pc = "trip"
    /\ \E source_amount \in 1..MaxTripAmount, trade_direction \in TradeDirection :
        LET first == swap_without_fees(curve, source_amount,
                         inp.pool_source_amount, inp.pool_destination_amount,
                         trade_direction)
        IN  /\ inp' = [source_amount |-> source_amount,
                       pool_source_amount |-> inp.pool_source_amount,
                       pool_destination_amount |-> inp.pool_destination_amount,
                       trade_direction |-> trade_direction,
                       intermediate |-> first]
            /\ out' = first
            /\ pc' = IF first.ok THEN "trip_back" ELSE "done"
    /\ op' = "swap"
    /\ UNCHANGED <<curve, pool>>

\* The swap back: what was released is swapped in the opposite direction
\* against the reserves the first swap left
TripBack ==
    /\ pc = "trip_back"
    /\ out' = swap_without_fees(curve,
                  inp.intermediate.val.destination_amount_swapped,
                  inp.pool_destination_amount
                      - inp.intermediate.val.destination_amount_swapped,
                  inp.pool_source_amount
                      + inp.intermediate.val.source_amount_swapped,
                  opposite(inp.trade_direction))
    /\ op' = "swap_back"
    /\ pc' = "done"
    /\ UNCHANGED <<curve, inp, pool>>

NextTrip == TripOut \/ TripBack

SpecTrip == InitTrip /\ [][NextTrip]_vars

(***************************************************************************)
(* Specification of the liquidity instructions on a pool                   *)
(***************************************************************************)

WithdrawFees ==
    { [owner_withdraw_fee_numerator |-> 0, owner_withdraw_fee_denominator |-> 0],
      [owner_withdraw_fee_numerator |-> 1, owner_withdraw_fee_denominator |-> 2] }

\* The minimum and maximum amounts a caller passes
SlippageAmounts == {0, 2}

\* A pool after initialization: both vaults funded, the pool tokens minted to
\* the initial holder
InitPool ==
    /\ pc = "pool"
    /\ op = "none"
    /\ curve \in PoolCurves
    /\ inp = <<>>
    /\ out = Err("none")
    /\ \E token_a_amount \in 1..MaxVault, token_b_amount \in 1..MaxVault,
          supply \in 1..MaxMint, fees \in WithdrawFees :
            pool = [token_a_vault |-> token_a_amount,
                    token_b_vault |-> token_b_amount,
                    pool_token_mint_supply |-> supply,
                    pool_token_balance |->
                        [h \in Holders |-> IF h = "admin" THEN supply ELSE 0],
                    fees |-> fees]

WithdrawAllTokenTypes ==
    /\ pc = "pool"
    /\ \E signer \in Signers, pool_token_amount \in 0..MaxMint,
          minimum_token_a_amount \in SlippageAmounts,
          minimum_token_b_amount \in SlippageAmounts :
            LET handled == withdraw_all_token_types(curve, pool, signer,
                               pool_token_amount, minimum_token_a_amount,
                               minimum_token_b_amount)
            IN  /\ op' = "withdraw_all_token_types"
                /\ inp' = [signer |-> signer,
                           pool_token_amount |-> pool_token_amount,
                           minimum_token_a_amount |-> minimum_token_a_amount,
                           minimum_token_b_amount |-> minimum_token_b_amount,
                           before |-> pool]
                /\ out' = handled.result
                /\ pool' = handled.pool
    /\ pc' = "returned"
    /\ UNCHANGED curve

DepositAllTokenTypes ==
    /\ pc = "pool"
    /\ \E signer \in Signers, pool_token_amount \in 0..MaxMint,
          maximum_token_a_amount \in SlippageAmounts,
          maximum_token_b_amount \in SlippageAmounts :
            LET handled == deposit(curve, pool, signer, pool_token_amount,
                               maximum_token_a_amount, maximum_token_b_amount)
            IN  /\ handled.pool.pool_token_mint_supply <= MaxMint
                /\ handled.pool.token_a_vault <= MaxVault
                /\ handled.pool.token_b_vault <= MaxVault
                /\ op' = "deposit"
                /\ inp' = [signer |-> signer,
                           pool_token_amount |-> pool_token_amount,
                           maximum_token_a_amount |-> maximum_token_a_amount,
                           maximum_token_b_amount |-> maximum_token_b_amount,
                           before |-> pool]
                /\ out' = handled.result
                /\ pool' = handled.pool
    /\ pc' = "returned"
    /\ UNCHANGED curve

SwapOnPool ==
    /\ pc = "pool"
    /\ \E source_amount \in 1..MaxSource, trade_direction \in TradeDirection :
            LET pool_source_amount == IF trade_direction = AtoB
                                      THEN pool.token_a_vault
                                      ELSE pool.token_b_vault
                pool_destination_amount == IF trade_direction = AtoB
                                           THEN pool.token_b_vault
                                           ELSE pool.token_a_vault
                results == swap_without_fees(curve, source_amount,
                               pool_source_amount, pool_destination_amount,
                               trade_direction)
                swapped == IF results.ok
                           THEN swap_vaults(pool, trade_direction, results.val)
                           ELSE pool
            IN  /\ swapped.token_a_vault <= MaxVault
                /\ swapped.token_b_vault <= MaxVault
                /\ op' = "swap"
                /\ inp' = [source_amount |-> source_amount,
                           trade_direction |-> trade_direction,
                           before |-> pool]
                /\ out' = results
                /\ pool' = swapped
    /\ pc' = "returned"
    /\ UNCHANGED curve

\* The transaction is over: the next instruction starts from the accounts
NextInstruction ==
    /\ pc = "returned"
    /\ pc' = "pool"
    /\ op' = "none"
    /\ inp' = <<>>
    /\ out' = Err("none")
    /\ UNCHANGED <<curve, pool>>

NextPool ==
    WithdrawAllTokenTypes \/ DepositAllTokenTypes \/ SwapOnPool \/ NextInstruction

SpecPool == InitPool /\ [][NextPool]_vars

(***************************************************************************)
(* All operations                                                          *)
(***************************************************************************)
Init ==
    \/ InitSwap
    \/ InitSplit
    \/ InitFee
    \/ InitDecimals
    \/ InitValidate
    \/ InitSolver
    \/ InitPool
    \/ InitDirection
    \/ InitTrip

Next ==
    \/ Swap
    \/ Deposit
    \/ Withdraw
    \/ SubThenAddInverse
    \/ AddInverseThenSub
    \/ SubInputTransferFees
    \/ CompareSwapDecimals
    \/ Validate
    \/ ValidateSupply
    \/ StartComputeD
    \/ StepComputeD
    \/ StartComputeY
    \/ StepComputeY
    \/ WithdrawAllTokenTypes
    \/ DepositAllTokenTypes
    \/ SwapOnPool
    \/ NextInstruction
    \/ Opposite
    \/ SwapMirrored
    \/ TripOut
    \/ TripBack

Spec == Init /\ [][Next]_vars

(***************************************************************************)
(* Properties of the swap                                                  *)
(***************************************************************************)
SwapDone == pc = "done" /\ op = "swap"

\* Token A and token B reserves before the swap of the current state
ReservesBefore ==
    IF inp.trade_direction = AtoB
    THEN <<inp.pool_source_amount, inp.pool_destination_amount>>
    ELSE <<inp.pool_destination_amount, inp.pool_source_amount>>

\* Token A and token B reserves after the swap of the current state
ReservesAfter ==
    LET new_swap_source_amount ==
            inp.pool_source_amount + out.val.source_amount_swapped
        new_swap_destination_amount ==
            inp.pool_destination_amount - out.val.destination_amount_swapped
    IN  IF inp.trade_direction = AtoB
        THEN <<new_swap_source_amount, new_swap_destination_amount>>
        ELSE <<new_swap_destination_amount, new_swap_source_amount>>

\* C1: a successful swap of source_amount >= 1 against positive reserves
\* leaves normalized_value (the invariant D of the two reserves) no smaller
\* than before, and larger by at most 1.
C1_SwapPreservesValue ==
    (/\ SwapDone
     /\ out.ok
     /\ inp.source_amount >= 1
     /\ inp.pool_source_amount >= 1
     /\ inp.pool_destination_amount >= 1)
    => LET previous_value ==
               normalized_value(curve, ReservesBefore[1], ReservesBefore[2])
           new_value ==
               normalized_value(curve, ReservesAfter[1], ReservesAfter[2])
       IN  /\ previous_value.ok
           /\ new_value.ok
           /\ new_value.val >= previous_value.val
           /\ new_value.val - previous_value.val <= 1

\* A curve as StableCurve::new builds it: both factors are powers of ten and
\* the side with the larger number of decimals has factor 1.
CurveFromDecimals ==
    /\ curve.token_a_factor >= 1
    /\ curve.token_b_factor >= 1
    /\ (curve.token_a_factor = 1 \/ curve.token_b_factor = 1)

\* C5: on a curve built from an amp in [MIN_AMP, MAX_AMP) and token decimals,
\* a swap of source_amount >= 1 against reserves >= 1 returns a result, never
\* an error.
C5_SwapNeverFails ==
    (/\ SwapDone
     /\ CurveFromDecimals
     /\ curve.amp >= MIN_AMP
     /\ curve.amp < MAX_AMP
     /\ inp.source_amount >= 1
     /\ inp.pool_source_amount >= 1
     /\ inp.pool_destination_amount >= 1)
    => out.ok

\* C6: a swap of source_amount = 0 returns (0, 0) whatever the reserves, the
\* direction and the curve parameters are.
C6_SwapZero ==
    (SwapDone /\ inp.source_amount = 0)
    => /\ out.ok
       /\ out.val.source_amount_swapped = 0
       /\ out.val.destination_amount_swapped = 0

\* A zero swap on inputs the solver rejects (a zero factor, an empty reserve)
C6_Witness ==
    /\ SwapDone
    /\ inp.source_amount = 0
    /\ curve.token_a_factor = 0
    /\ inp.pool_destination_amount = 0
    /\ inp.pool_source_amount > 0
    /\ out.ok
    /\ out.val = SwapWithoutFeesResult(0, 0)

(***************************************************************************)
(* Properties of the pool-token split                                      *)
(***************************************************************************)
DepositDone == pc = "done" /\ op = "deposit"

WithdrawDone == pc = "done" /\ op = "withdraw"

SplitDone == DepositDone \/ WithdrawDone

\* The floor share pool_tokens * reserve / supply the proptests assume >= 1
FloorShare(reserve) ==
    (inp.pool_token_amount * reserve) \div inp.pool_token_supply

\* new_reserve * old_supply >= old_reserve * new_supply
NotDiluted(reserve, amount) ==
    (reserve + amount) * inp.pool_token_supply
        >= reserve * (inp.pool_token_supply + inp.pool_token_amount)

\* C2: a deposit whose floor share is at least 1 on both sides does not
\* dilute either side: new_reserve_i * supply >= reserve_i * new_supply.
C2_DepositDoesNotDilute ==
    (/\ DepositDone
     /\ inp.pool_token_amount >= 1
     /\ inp.pool_token_supply >= 1
     /\ inp.swap_token_a_amount >= 1
     /\ inp.swap_token_b_amount >= 1
     /\ FloorShare(inp.swap_token_a_amount) >= 1
     /\ FloorShare(inp.swap_token_b_amount) >= 1)
    => /\ out.ok
       /\ NotDiluted(inp.swap_token_a_amount, out.val.token_a_amount)
       /\ NotDiluted(inp.swap_token_b_amount, out.val.token_b_amount)

\* A deposit in which both sides are rounded up and are different
C2_Witness ==
    /\ DepositDone
    /\ out.ok
    /\ inp.swap_token_a_amount > inp.swap_token_b_amount
    /\ FloorShare(inp.swap_token_a_amount) >= 1
    /\ FloorShare(inp.swap_token_b_amount) >= 1
    /\ out.val.token_a_amount > FloorShare(inp.swap_token_a_amount)
    /\ out.val.token_b_amount > FloorShare(inp.swap_token_b_amount)

\* C3: a withdrawal of pool_tokens < supply whose floor share is at least 1
\* on each side satisfies
\* normalized_value(new reserves) * supply >= normalized_value(reserves) * new_supply.
C3_WithdrawDoesNotDilute ==
    (/\ WithdrawDone
     /\ out.ok
     /\ inp.pool_token_amount >= 1
     /\ inp.pool_token_amount < inp.pool_token_supply
     /\ inp.swap_token_a_amount >= 1
     /\ inp.swap_token_b_amount >= 1
     /\ FloorShare(inp.swap_token_a_amount) >= 1
     /\ FloorShare(inp.swap_token_b_amount) >= 1)
    => LET value == normalized_value(curve, inp.swap_token_a_amount,
                                     inp.swap_token_b_amount)
           new_value ==
               normalized_value(curve,
                                inp.swap_token_a_amount - out.val.token_a_amount,
                                inp.swap_token_b_amount - out.val.token_b_amount)
       IN  /\ value.ok
           /\ new_value.ok
           /\ new_value.val * inp.pool_token_supply
                  >= value.val * (inp.pool_token_supply - inp.pool_token_amount)

\* C4 as claimed: every deposit of pool_tokens >= 1 against a supply >= 1
\* leaves both sides undiluted, however small the share (stated here for
\* positive reserves).
C4_Original ==
    (/\ DepositDone
     /\ inp.pool_token_amount >= 1
     /\ inp.pool_token_supply >= 1
     /\ inp.swap_token_a_amount >= 1
     /\ inp.swap_token_b_amount >= 1)
    => /\ out.ok
       /\ NotDiluted(inp.swap_token_a_amount, out.val.token_a_amount)
       /\ NotDiluted(inp.swap_token_b_amount, out.val.token_b_amount)

\* C4 (amended): on a deposit of pool_tokens >= 1 against a supply >= 1, a
\* side is left undiluted exactly when its floor share is at least 1 or its
\* reserve is 0; a side with a positive reserve and a zero share gets
\* amount 0 and is diluted.
C4_DepositDilutionPerSide ==
    (/\ DepositDone
     /\ inp.pool_token_amount >= 1
     /\ inp.pool_token_supply >= 1)
    => /\ out.ok
       /\ NotDiluted(inp.swap_token_a_amount, out.val.token_a_amount)
            <=> (FloorShare(inp.swap_token_a_amount) >= 1
                 \/ inp.swap_token_a_amount = 0)
       /\ NotDiluted(inp.swap_token_b_amount, out.val.token_b_amount)
            <=> (FloorShare(inp.swap_token_b_amount) >= 1
                 \/ inp.swap_token_b_amount = 0)

\* A deposit that dilutes token B (share below one token) but not token A
C4_Witness ==
    /\ DepositDone
    /\ out.ok
    /\ inp.pool_token_amount >= 1
    /\ inp.swap_token_b_amount >= 1
    /\ FloorShare(inp.swap_token_a_amount) >= 1
    /\ FloorShare(inp.swap_token_b_amount) = 0
    /\ NotDiluted(inp.swap_token_a_amount, out.val.token_a_amount)
    /\ ~NotDiluted(inp.swap_token_b_amount, out.val.token_b_amount)

\* amount is the exact quotient pool_tokens * reserve / supply rounded down
IsFloorOf(amount, reserve) ==
    /\ amount * inp.pool_token_supply <= inp.pool_token_amount * reserve
    /\ inp.pool_token_amount * reserve < (amount + 1) * inp.pool_token_supply

\* amount is the exact quotient pool_tokens * reserve / supply rounded up
IsCeilingOf(amount, reserve) ==
    /\ amount * inp.pool_token_supply >= inp.pool_token_amount * reserve
    /\ inp.pool_token_amount * reserve > (amount - 1) * inp.pool_token_supply

\* C7 as claimed: each side is pool_tokens * reserve_i / supply, rounded down
\* under Floor and rounded up toward +infinity under Ceiling (stated here for
\* positive reserves and pool_tokens >= 1).
C7_Original ==
    (/\ SplitDone
     /\ inp.pool_token_supply >= 1
     /\ inp.pool_token_amount >= 1
     /\ inp.swap_token_a_amount >= 1
     /\ inp.swap_token_b_amount >= 1)
    => /\ out.ok
       /\ inp.round_direction = Floor =>
            /\ IsFloorOf(out.val.token_a_amount, inp.swap_token_a_amount)
            /\ IsFloorOf(out.val.token_b_amount, inp.swap_token_b_amount)
       /\ inp.round_direction = Ceiling =>
            /\ IsCeilingOf(out.val.token_a_amount, inp.swap_token_a_amount)
            /\ IsCeilingOf(out.val.token_b_amount, inp.swap_token_b_amount)

\* One side of the amended C7
RoundedAsAmended(amount, reserve) ==
    IF inp.round_direction = Floor
           \/ inp.pool_token_amount * reserve < inp.pool_token_supply
    THEN IsFloorOf(amount, reserve)
    ELSE IsCeilingOf(amount, reserve)

\* C7 (amended): each side is pool_tokens * reserve_i / supply, rounded down
\* under Floor; under Ceiling it is rounded up, except that a side whose
\* quotient is below 1 is rounded down to 0.  The two sides are rounded
\* independently of each other.
C7_SplitRounding ==
    (SplitDone /\ inp.pool_token_supply >= 1)
    => /\ out.ok
       /\ RoundedAsAmended(out.val.token_a_amount, inp.swap_token_a_amount)
       /\ RoundedAsAmended(out.val.token_b_amount, inp.swap_token_b_amount)

\* A Ceiling split that rounds token A up while token B is exact, with
\* different amounts on the two sides
C7_Witness ==
    /\ DepositDone
    /\ out.ok
    /\ (inp.pool_token_amount * inp.swap_token_a_amount) % inp.pool_token_supply > 0
    /\ (inp.pool_token_amount * inp.swap_token_b_amount) % inp.pool_token_supply = 0
    /\ out.val.token_a_amount = FloorShare(inp.swap_token_a_amount) + 1
    /\ out.val.token_b_amount = FloorShare(inp.swap_token_b_amount)
    /\ out.val.token_b_amount > out.val.token_a_amount

\* One side of C8
ZeroShareStaysZero(amount, reserve) ==
    /\ inp.pool_token_amount * reserve < inp.pool_token_supply => amount = 0
    /\ (/\ inp.round_direction = Ceiling
        /\ FloorShare(reserve) >= 1
        /\ (inp.pool_token_amount * reserve) % inp.pool_token_supply # 0)
       => amount = FloorShare(reserve) + 1

\* C8: a side with pool_tokens * reserve_i < supply gets amount 0 under both
\* Floor and Ceiling; under Ceiling a side whose floor share is >= 1 with a
\* non-zero remainder is rounded up by exactly 1.
C8_CeilingKeepsZeroShare ==
    (SplitDone /\ inp.pool_token_supply >= 1)
    => /\ out.ok
       /\ ZeroShareStaysZero(out.val.token_a_amount, inp.swap_token_a_amount)
       /\ ZeroShareStaysZero(out.val.token_b_amount, inp.swap_token_b_amount)

\* The shape of the deposit seed (1 of 100 pool tokens, reserves 999 and 1):
\* token A is rounded up, token B has a share below one token and gets 0
C8_Witness ==
    /\ DepositDone
    /\ out.ok
    /\ inp.pool_token_amount = 1
    /\ inp.swap_token_b_amount = 1
    /\ inp.pool_token_supply > 1
    /\ FloorShare(inp.swap_token_a_amount) >= 1
    /\ out.val.token_a_amount = FloorShare(inp.swap_token_a_amount) + 1
    /\ out.val.token_b_amount = 0

(***************************************************************************)
(* Properties of the transfer-fee adapter                                  *)
(***************************************************************************)
RoundTripDone == pc = "done" /\ op = "sub_then_add_inverse"

InverseDone == pc = "done" /\ op = "add_inverse_then_sub"

\* A transfer fee is configured and its rate is below 100%
RateBelowAll ==
    /\ inp.transfer_fees.some
    /\ inp.transfer_fees.transfer_fee_basis_points < ONE_IN_BASIS_POINTS

\* C9 as claimed: for every amount >= 1 and every rate below 100%,
\* add_inverse_transfer_fee(sub_transfer_fee(amount)) is amount or amount - 1.
C9_Original ==
    (RoundTripDone /\ inp.amount >= 1 /\ (~inp.transfer_fees.some \/ RateBelowAll))
    => /\ out.ok
       /\ out.val <= inp.amount
       /\ inp.amount - out.val <= 1

\* C9 (amended): for every amount >= 1 and every rate below 100%,
\* add_inverse_transfer_fee(sub_transfer_fee(amount)) is never greater than
\* amount, and for every rate of at most 50% it is amount or amount - 1.
C9_FeeRoundTrip ==
    (RoundTripDone /\ inp.amount >= 1 /\ (~inp.transfer_fees.some \/ RateBelowAll))
    => /\ out.ok
       /\ out.val <= inp.amount
       /\ (inp.transfer_fees.transfer_fee_basis_points * 2 <= ONE_IN_BASIS_POINTS)
            => inp.amount - out.val <= 1

\* A round trip at a rate of at most 50% that charges a fee and loses one unit
C9_Witness ==
    /\ RoundTripDone
    /\ inp.transfer_fees.some
    /\ inp.transfer_fees.transfer_fee_basis_points > 0
    /\ inp.transfer_fees.transfer_fee_basis_points * 2 <= ONE_IN_BASIS_POINTS
    /\ inp.intermediate.ok
    /\ inp.intermediate.val >= 1
    /\ inp.intermediate.val < inp.amount
    /\ out.ok
    /\ out.val = inp.amount - 1

SubInputDone == pc = "done" /\ op = "sub_input_transfer_fees"

\* The gap sub_transfer_fee(amount) - sub_input_transfer_fees(amount, fees, host)
\* is within 0..3 with a host and within 0..2 without
GapWithinBound ==
    /\ out.ok
    /\ inp.intermediate.ok
    /\ out.val <= inp.intermediate.val
    /\ inp.intermediate.val - out.val <= (IF inp.host_fee THEN 3 ELSE 2)

\* The fee of the whole amount is not cut by the mint's maximum_fee
FeeUncapped ==
    \/ ~inp.transfer_fees.some
    \/ ceil_div(inp.amount * inp.transfer_fees.transfer_fee_basis_points,
                ONE_IN_BASIS_POINTS) <= inp.transfer_fees.maximum_fee

CompareDone == pc = "done" /\ op = "compare_decimals"

\* C12: when the AtoB swap on the 6/6 curve and the scaled swap on a curve
\* with more decimals both return a result, after rescaling to 6 decimals the
\* source consumed is equal and the destination released differs by at most 1.
C12_DecimalInvariance ==
    (CompareDone /\ inp.intermediate.ok /\ out.ok)
    => /\ inp.intermediate.val.source_amount_swapped = out.val.source_amount_swapped
       /\ abs_diff(inp.intermediate.val.destination_amount_swapped,
                   out.val.destination_amount_swapped) <= 1

(***************************************************************************)
(* Properties of the validation                                            *)
(***************************************************************************)
ValidateDone == pc = "done" /\ op = "validate"

ValidateSupplyDone == pc = "done" /\ op = "validate_supply"

AmpInRange == MIN_AMP < curve.amp /\ curve.amp < MAX_AMP

\* C13: validate returns Ok exactly when MIN_AMP < amp < MAX_AMP and
\* InvalidCurve otherwise; amp = MIN_AMP and amp = MAX_AMP are rejected.
C13_ValidateAmp ==
    ValidateDone
    => /\ out.ok <=> AmpInRange
       /\ ~out.ok => out.err = "InvalidCurve"
       /\ curve.amp \in {MIN_AMP, MAX_AMP} => out = Err("InvalidCurve")

\* The lower bound itself is rejected
C13_Witness ==
    /\ ValidateDone
    /\ curve.amp = MIN_AMP
    /\ curve.token_a_factor = 1
    /\ curve.token_b_factor = 1
    /\ out = Err("InvalidCurve")

HasZeroFactor == curve.token_a_factor = 0 \/ curve.token_b_factor = 0

C20_ValidateSupply ==
    ValidateSupplyDone
    => /\ out.ok <=> (inp.token_a_amount > 0 /\ inp.token_b_amount > 0)
       /\ ~out.ok => out = Err("EmptySupply")

\* Only the token B supply is empty
C20_Witness ==
    /\ ValidateSupplyDone
    /\ inp.token_a_amount > 0
    /\ inp.token_b_amount = 0
    /\ out = Err("EmptySupply")

(***************************************************************************)
(* Properties of the solvers                                               *)
(***************************************************************************)
InSolverLoop == pc \in {"compute_d", "compute_y"}

\* A solver has returned a value from its loop
SolverReturned ==
    /\ op \in {"compute_d", "compute_y"}
    /\ pc \in {"d_done", "done"}
    /\ out.ok

\* C15: compute_d and compute_y each make at most ITERATIONS = 256 passes,
\* and a loop whose termination test was not met by its last pass returns the
\* last iterate as a successful result.
C15_SolversBounded ==
    /\ InSolverLoop => inp.i < ITERATIONS
    /\ (op \in {"compute_d", "compute_y"} /\ ~InSolverLoop) => inp.i <= ITERATIONS
    /\ (/\ op \in {"compute_d", "compute_y"}
        /\ ~InSolverLoop
        /\ inp.i = ITERATIONS
        /\ ~inp.met)
       => out = Ok(inp.iterate)

\* compute_d on reserves for which the approximation oscillates: all 256
\* passes are made, the last one does not meet |D_next - D| <= 1, and the
\* last D is returned
C15_Witness ==
    /\ SolverReturned
    /\ op = "compute_d"
    /\ inp.amount_a >= 1
    /\ inp.amount_b >= 1
    /\ inp.i = ITERATIONS
    /\ ~inp.met
    /\ out = Ok(inp.iterate)

(***************************************************************************)
(* Properties of the liquidity instructions                                *)
(***************************************************************************)
OnPool == pc \in {"pool", "returned"}

WithdrawReturned == pc = "returned" /\ op = "withdraw_all_token_types"

DepositReturned == pc = "returned" /\ op = "deposit"

\* C16 as claimed: after any sequence of successful swaps and
\* withdraw_all_token_types calls from positive reserves, the token A vault
\* and the token B vault both hold more than 0.
C16_Original ==
    OnPool => (pool.token_a_vault > 0 /\ pool.token_b_vault > 0)

\* C16: as long as pool tokens are outstanding both vaults hold more than 0
\* after any sequence of swaps and withdrawals from positive reserves; a
\* withdrawal leaves a vault empty only by burning the whole supply.
C16_ReservesPositiveWhileSupply ==
    OnPool =>
        /\ pool.pool_token_mint_supply > 0
              => (pool.token_a_vault > 0 /\ pool.token_b_vault > 0)
        /\ (WithdrawReturned /\ out.ok /\ inp.before.token_a_vault > 0
               /\ inp.before.token_b_vault > 0
               /\ (pool.token_a_vault = 0 \/ pool.token_b_vault = 0))
              => out.val.pool_token_amount = inp.before.pool_token_mint_supply

\* A withdrawal paid out of both vaults and left both of them funded
C16_Witness ==
    /\ WithdrawReturned
    /\ out.ok
    /\ out.val.token_a_amount > 0
    /\ out.val.token_b_amount > 0
    /\ pool.pool_token_mint_supply > 0
    /\ pool.token_a_vault > 0
    /\ pool.token_b_vault > 0

\* The amounts a withdrawal computed from the accounts it found
WithdrawComputed == withdraw_amounts(curve, inp.before, inp.pool_token_amount)

\* The amounts a deposit computed from the accounts it found
DepositComputed ==
    stable_pool_tokens_to_trading_tokens(curve, inp.pool_token_amount,
        inp.before.pool_token_mint_supply, inp.before.token_a_vault,
        inp.before.token_b_vault, Ceiling)

ZeroTokenA ==
    WithdrawComputed.val.token_a_amount = 0 /\ inp.before.token_a_vault # 0

ZeroTokenB ==
    WithdrawComputed.val.token_b_amount = 0 /\ inp.before.token_b_vault # 0

BelowMinimumA ==
    WithdrawComputed.val.token_a_amount < inp.minimum_token_a_amount

BelowMinimumB ==
    WithdrawComputed.val.token_b_amount < inp.minimum_token_b_amount

\* A withdrawal whose computed amount is 0 on a side whose vault is not empty
ZeroWithdrawal ==
    /\ WithdrawReturned
    /\ WithdrawComputed.ok
    /\ (ZeroTokenA \/ ZeroTokenB)

\* A deposit of pool tokens that convert to 0 trading tokens on a side
ZeroDeposit ==
    /\ DepositReturned
    /\ DepositComputed.ok
    /\ (DepositComputed.val.token_a_amount = 0 \/ DepositComputed.val.token_b_amount = 0)

\* A withdrawal whose computed amount is below the caller's minimum on a side
WithdrawalBelowMinimum ==
    /\ WithdrawReturned
    /\ WithdrawComputed.ok
    /\ (BelowMinimumA \/ BelowMinimumB)

\* A deposit that requires more than the caller's maximum on a side
DepositAboveMaximum ==
    /\ DepositReturned
    /\ DepositComputed.ok
    /\ \/ DepositComputed.val.token_a_amount > inp.maximum_token_a_amount
       \/ DepositComputed.val.token_b_amount > inp.maximum_token_b_amount

\* C17 as claimed: a withdrawal whose computed token A or token B amount is 0
\* while that vault is not empty, and a deposit that converts to 0 trading
\* tokens, fail with ZeroTradingTokens and change no balance.
C17_Original ==
    (ZeroWithdrawal \/ ZeroDeposit)
        => (out = Err("ZeroTradingTokens") /\ pool = inp.before)

\* C17: a zero-amount withdrawal or deposit fails and changes no balance; the
\* error is ZeroTradingTokens unless a slippage check made earlier fails, and
\* then it is ExceededSlippage.
C17_ZeroAmountRejected ==
    /\ ZeroWithdrawal =>
        /\ ~out.ok
        /\ pool = inp.before
        /\ IF BelowMinimumA \/ (~ZeroTokenA /\ BelowMinimumB)
           THEN out = Err("ExceededSlippage")
           ELSE out = Err("ZeroTradingTokens")
    /\ ZeroDeposit =>
        /\ ~out.ok
        /\ pool = inp.before
        /\ \/ out = Err("ZeroTradingTokens")
           \/ DepositAboveMaximum /\ out = Err("ExceededSlippage")

\* A withdrawal of so few pool tokens that token A's share floors to 0
C17_Witness ==
    /\ ZeroWithdrawal
    /\ ZeroTokenA
    /\ inp.pool_token_amount > 0
    /\ inp.before.pool_token_balance[inp.signer] >= inp.pool_token_amount
    /\ out = Err("ZeroTradingTokens")
    /\ pool = inp.before

\* C18 as claimed: a withdrawal whose computed token A or token B amount is
\* below its minimum, and a deposit that requires more than a maximum, fail
\* with ExceededSlippage; nothing is transferred, minted or burned.
C18_Original ==
    (WithdrawalBelowMinimum \/ DepositAboveMaximum)
        => (out = Err("ExceededSlippage") /\ pool = inp.before)

\* C18: a withdrawal below a minimum or a deposit above a maximum fails and
\* nothing is transferred, minted or burned; the error is ExceededSlippage
\* unless a zero-amount check made earlier fails, and then it is
\* ZeroTradingTokens.
C18_SlippageRejected ==
    /\ WithdrawalBelowMinimum =>
        /\ ~out.ok
        /\ pool = inp.before
        /\ IF ~BelowMinimumA /\ ZeroTokenA
           THEN out = Err("ZeroTradingTokens")
           ELSE out = Err("ExceededSlippage")
    /\ DepositAboveMaximum =>
        /\ ~out.ok
        /\ pool = inp.before
        /\ \/ out = Err("ExceededSlippage")
           \/ ZeroDeposit /\ out = Err("ZeroTradingTokens")

\* A withdrawal the signer could pay for whose token B amount is below the
\* minimum asked for
C18_Witness ==
    /\ WithdrawalBelowMinimum
    /\ ~BelowMinimumA
    /\ BelowMinimumB
    /\ WithdrawComputed.val.token_b_amount > 0
    /\ inp.before.pool_token_balance[inp.signer] >= inp.pool_token_amount
    /\ out = Err("ExceededSlippage")
    /\ pool = inp.before

\* The pool tokens held in all pool-token accounts
HeldPoolTokens(p) ==
    p.pool_token_balance["admin"] + p.pool_token_balance["user"]
        + p.pool_token_balance["pool_token_fees_vault"]

\* C19: after any sequence of deposits and withdrawals the pool-token mint
\* supply equals the sum of the pool-token balances of all holders; a
\* withdrawal adds its fee to the fees vault, which leaves the supply alone,
\* and takes the burned amount from the signer's balance and from the supply.
C19_PoolTokenConservation ==
    OnPool =>
        /\ pool.pool_token_mint_supply = HeldPoolTokens(pool)
        /\ (WithdrawReturned /\ out.ok) =>
            /\ out.val.withdraw_fee + out.val.pool_token_amount = inp.pool_token_amount
            /\ pool.pool_token_balance["pool_token_fees_vault"] =
                   inp.before.pool_token_balance["pool_token_fees_vault"]
                       + out.val.withdraw_fee
            /\ pool.pool_token_balance[inp.signer] =
                   inp.before.pool_token_balance[inp.signer]
                       - out.val.withdraw_fee - out.val.pool_token_amount
            /\ pool.pool_token_mint_supply =
                   inp.before.pool_token_mint_supply - out.val.pool_token_amount

\* A liquidity provider who is not the initial holder withdraws, pays a fee
\* to the fees vault and burns the rest
C19_Witness ==
    /\ WithdrawReturned
    /\ out.ok
    /\ inp.signer = "user"
    /\ out.val.withdraw_fee > 0
    /\ out.val.pool_token_amount > 0
    /\ pool.pool_token_balance["pool_token_fees_vault"] > 0
    /\ pool.pool_token_mint_supply = HeldPoolTokens(pool)

(***************************************************************************)
(* Properties of the trade direction                                       *)
(***************************************************************************)
OppositeDone == pc = "done" /\ op = "opposite"

MirroredDone == pc = "done" /\ op = "swap_mirrored"

\* C21: for every direction d, d.opposite().opposite() = d and
\* d.opposite() # d.
C21_OppositeInvolution ==
    OppositeDone =>
        /\ out = Ok(inp.trade_direction)
        /\ inp.intermediate # inp.trade_direction
        /\ inp.intermediate \in TradeDirection

\* BtoA turned round and back
C21_Witness ==
    /\ OppositeDone
    /\ inp.trade_direction = BtoA
    /\ inp.intermediate = AtoB
    /\ out = Ok(BtoA)

\* C29: a swap from B to A on a curve with factors (fa, fb) returns the same
\* result, or the same error, as the swap from A to B of the same amounts on
\* the curve with factors (fb, fa).
C29_DirectionSelectsFactors ==
    MirroredDone => out = inp.intermediate

\* A swap that releases tokens on a curve whose two factors differ
C29_Witness ==
    /\ MirroredDone
    /\ curve.token_a_factor # curve.token_b_factor
    /\ curve.token_a_factor > 0
    /\ curve.token_b_factor > 0
    /\ out.ok
    /\ out.val.destination_amount_swapped > 0
    /\ out = inp.intermediate

(***************************************************************************)
(* Properties of a swap there and back                                     *)
(***************************************************************************)
TripDone == pc = "done" /\ op = "swap_back"

\* C22: for a valid amp and positive reserves, swapping dx for dy and then dy
\* back against the reserves the first swap left returns no more than dx.
C22_RoundTripNotProfitable ==
    (TripDone /\ out.ok)
        => out.val.destination_amount_swapped <= inp.source_amount

(***************************************************************************)
(* Properties of the swap output                                           *)
(***************************************************************************)
\* A swap of a positive amount against two positive reserves returned a result
SwapReleased ==
    /\ SwapDone
    /\ out.ok
    /\ inp.source_amount >= 1
    /\ inp.pool_source_amount >= 1
    /\ inp.pool_destination_amount >= 1

\* The scaled reserves and source amount of the swap of the current state
ScaledInputs ==
    scale_swap_inputs(curve, inp.source_amount, inp.pool_source_amount,
                      inp.pool_destination_amount, inp.trade_direction)

\* D of the scaled reserves of the swap of the current state
SwapD == compute_d(compute_ann(curve.amp), ScaledInputs.val[2], ScaledInputs.val[3])

\* The new scaled destination reserve of the swap of the current state
SwapNewY ==
    compute_y(compute_ann(curve.amp), ScaledInputs.val[2] + ScaledInputs.val[1],
              SwapD.val)

\* C23: for positive reserves and source_amount > 0 a successful swap releases
\* at most pool_destination_amount - 1: D is at least 1, compute_y returns at
\* least 1, and the scale-down rounds up.
C23_DestinationNotDrained ==
    SwapReleased =>
        /\ SwapD.val >= 1
        /\ SwapNewY.val >= 1
        /\ out.val.destination_amount_swapped <= inp.pool_destination_amount - 1

\* A swap that leaves one token in the destination reserve
C23_Witness ==
    /\ SwapReleased
    /\ inp.pool_destination_amount >= 2
    /\ out.val.destination_amount_swapped = inp.pool_destination_amount - 1

\* The factor of the destination token of the swap of the current state
DestinationFactor ==
    IF inp.trade_direction = AtoB THEN curve.token_b_factor
    ELSE curve.token_a_factor

\* C24: a successful swap of source_amount > 0 consumes source_amount, also
\* when it releases nothing, and releases pool_destination_amount less the
\* new destination reserve compute_y(ann, scaled pool_source + scaled source,
\* D) divided by the destination token's factor and rounded up.
C24_SwapOutput ==
    (SwapDone /\ out.ok /\ inp.source_amount >= 1) =>
        /\ out.val.source_amount_swapped = inp.source_amount
        /\ DestinationFactor >= 1
        /\ SwapD.ok
        /\ SwapNewY.ok
        /\ out.val.destination_amount_swapped =
               inp.pool_destination_amount
                   - ((SwapNewY.val + DestinationFactor - 1) \div DestinationFactor)

\* The new reserve is not a multiple of the destination factor, and tokens
\* are released
C24_Witness ==
    /\ SwapDone
    /\ out.ok
    /\ inp.source_amount >= 1
    /\ DestinationFactor = 10
    /\ SwapNewY.val % DestinationFactor # 0
    /\ out.val.source_amount_swapped = inp.source_amount
    /\ out.val.destination_amount_swapped > 0

(***************************************************************************)
(* Properties of compute_y                                                 *)
(***************************************************************************)
\* compute_y has derived b and c
CoefficientsDone ==
    /\ op = "compute_y"
    /\ (pc = "compute_y" \/ out.ok)

SolverAnn == compute_ann(curve.amp)

\* C25 as claimed: c is the product of floor(D*D / (2x)) and
\* floor(D / (2*Ann)), and b is x + floor(D / Ann).
C25_Original ==
    CoefficientsDone =>
        /\ inp.c = ((inp.d * inp.d) \div (inp.x * 2)) * (inp.d \div (SolverAnn * 2))
        /\ inp.b = inp.x + (inp.d \div SolverAnn)

\* C25: c is floor(floor(D*D / (2x)) * D / (2*Ann)): the first quotient is
\* floored, multiplied by D, and the product is divided by 2*Ann and floored;
\* b is x + floor(D / Ann).
C25_Coefficients ==
    CoefficientsDone =>
        /\ inp.c = (((inp.d * inp.d) \div (inp.x * 2)) * inp.d) \div (SolverAnn * 2)
        /\ inp.b = inp.x + (inp.d \div SolverAnn)

\* D is below 2*Ann, so the second quotient taken alone is 0, and c is not
C25_Witness ==
    /\ CoefficientsDone
    /\ inp.x >= 1
    /\ inp.d \div (SolverAnn * 2) = 0
    /\ inp.c > 0

\* The quotient of a pass of compute_y from the approximation y
NextY(y) ==
    LET numerator == y * y + inp.c
        denominator == 2 * y + inp.b - inp.d
    IN  IF denominator > 0
        THEN (numerator + denominator - 1) \div denominator
        ELSE IF numerator = 0 THEN 0 ELSE 1

\* C26: the loop of compute_y starts from y = D; each pass sets y_next to
\* (y*y + c) / (2*y + b - D) rounded up, to 0 or 1 for a zero or non-zero
\* numerator when the division yields no quotient, and the loop stops, with
\* y as the result, as soon as y_next = y.
C26_ComputeYIteration ==
    /\ [](pc = "compute_y" /\ inp.i = 0 => inp.iterate = inp.d)
    /\ [][(pc = "compute_y" /\ inp'.i = inp.i + 1) =>
            /\ inp'.iterate = NextY(inp.iterate)
            /\ inp'.met <=> (inp'.iterate = inp.iterate)
            /\ inp'.met => (pc' = "done" /\ out' = Ok(inp.iterate))
            /\ (~inp'.met /\ inp'.i < ITERATIONS) => pc' = "compute_y"]_vars

\* The loop has stopped, after several passes, at a y that the rounding up of
\* the quotient reproduces
C26_Witness ==
    /\ op = "compute_y"
    /\ pc = "done"
    /\ inp.i >= 3
    /\ inp.met
    /\ out = Ok(inp.iterate)
    /\ 2 * inp.iterate + inp.b - inp.d > 0
    /\ (inp.iterate * inp.iterate + inp.c) % (2 * inp.iterate + inp.b - inp.d) # 0
    /\ NextY(inp.iterate) = inp.iterate

(***************************************************************************)
(* Properties of the scale routines                                        *)
(***************************************************************************)
\* C27: scale_up(x, 0) and scale_down(x, 0, round_up) return
\* CalculationFailure for every x and round_up, and a swap of
\* source_amount > 0 on a curve with a zero token_a_factor or token_b_factor
\* returns an error, never a result.
C27_ZeroFactorFails ==
    (SwapDone /\ HasZeroFactor /\ inp.source_amount >= 1) =>
        /\ ~out.ok
        /\ out = Err("CalculationFailure")
        /\ \A x \in {inp.source_amount, inp.pool_source_amount,
                     inp.pool_destination_amount} :
            /\ scale_up(x, 0) = Err("CalculationFailure")
            /\ \A round_up \in BOOLEAN :
                  scale_down(x, 0, round_up) = Err("CalculationFailure")

\* Only the destination token's factor is 0 and the reserves are funded
C27_Witness ==
    /\ SwapDone
    /\ inp.source_amount >= 1
    /\ inp.trade_direction = AtoB
    /\ curve.token_a_factor >= 1
    /\ curve.token_b_factor = 0
    /\ inp.pool_source_amount >= 1
    /\ inp.pool_destination_amount >= 1
    /\ out = Err("CalculationFailure")

(***************************************************************************)
(* Properties of the accounts after a withdrawal                           *)
(***************************************************************************)
\* The share of a vault that the burned pool tokens stand for, rounded down
\* and capped at the vault's balance
FloorShareOfVault(burned, vault) ==
    LET share == (burned * vault) \div inp.before.pool_token_mint_supply
    IN  IF share <= vault THEN share ELSE vault

\* C28: a successful withdraw_all_token_types(pool_token_amount) takes exactly
\* pool_token_amount pool tokens from the signer's account: withdraw_fee goes
\* to the fees vault and pool_token_amount - withdraw_fee is burned; each
\* vault pays the Floor share of the burned amount of its balance before the
\* withdrawal, against the supply before the withdrawal, capped at the
\* balance.
C28_WithdrawAccounting ==
    (WithdrawReturned /\ out.ok) =>
        LET fee == out.val.withdraw_fee
            burned == inp.pool_token_amount - fee
            other == CHOOSE h \in Signers : h # inp.signer
        IN  /\ fee >= 0
            /\ burned >= 0
            /\ out.val.pool_token_amount = burned
            /\ pool.pool_token_balance[inp.signer] =
                   inp.before.pool_token_balance[inp.signer] - inp.pool_token_amount
            /\ pool.pool_token_balance["pool_token_fees_vault"] =
                   inp.before.pool_token_balance["pool_token_fees_vault"] + fee
            /\ pool.pool_token_balance[other] = inp.before.pool_token_balance[other]
            /\ pool.pool_token_mint_supply =
                   inp.before.pool_token_mint_supply - burned
            /\ out.val.token_a_amount =
                   FloorShareOfVault(burned, inp.before.token_a_vault)
            /\ out.val.token_b_amount =
                   FloorShareOfVault(burned, inp.before.token_b_vault)
            /\ pool.token_a_vault = inp.before.token_a_vault - out.val.token_a_amount
            /\ pool.token_b_vault = inp.before.token_b_vault - out.val.token_b_amount

\* A withdrawal with a fee whose token A share is rounded down
C28_Witness ==
    /\ WithdrawReturned
    /\ out.ok
    /\ out.val.withdraw_fee > 0
    /\ out.val.token_a_amount > 0
    /\ out.val.token_b_amount > 0
    /\ (out.val.pool_token_amount * inp.before.token_a_vault)
           % inp.before.pool_token_mint_supply # 0
    /\ pool.pool_token_balance[inp.signer] =
           inp.before.pool_token_balance[inp.signer] - inp.pool_token_amount

(***************************************************************************)
(* Properties of compute_d on an empty reserve                             *)
(***************************************************************************)
\* Exactly one of the two reserves of the swap of the current state is 0
OneReserveEmpty ==
    (inp.pool_source_amount = 0) # (inp.pool_destination_amount = 0)

\* C30: compute_d returns 0 only for two empty reserves; when exactly one
\* reserve is 0 the division by 2 * 0 fails, and so do compute_d, a swap of
\* source_amount > 0 and the production normalized_value.
C30_ComputeDOneEmptyReserve ==
    (SwapDone /\ ~HasZeroFactor /\ inp.source_amount >= 1) =>
        /\ OneReserveEmpty =>
            /\ SwapD = Err("CalculationFailure")
            /\ out = Err("CalculationFailure")
            /\ normalized_value(curve, ReservesBefore[1], ReservesBefore[2])
                   = Err("CalculationFailure")
        /\ (inp.pool_source_amount = 0 /\ inp.pool_destination_amount = 0)
              => SwapD = Ok(0)
        /\ SwapD = Ok(0)
              => (inp.pool_source_amount = 0 /\ inp.pool_destination_amount = 0)

\* Only the destination reserve is empty
C30_Witness ==
    /\ SwapDone
    /\ ~HasZeroFactor
    /\ inp.source_amount >= 1
    /\ inp.pool_source_amount >= 1
    /\ inp.pool_destination_amount = 0
    /\ SwapD = Err("CalculationFailure")
    /\ out = Err("CalculationFailure")

====
